---------------------------- MODULE Spec2Model ----------------------------
(***************************************************************************)
(* A model of cylmesh: the mesh-statistics parser                          *)
(* (_extract_mesh_statistics) and the create_mesh workflow.                *)
(*                                                                         *)
(* Text representation.  A file's text is a sequence of lines; a line is   *)
(* the sequence of its whitespace-separated fields (what str.split()       *)
(* yields); a field is the sequence of its characters.  `nl' tells whether *)
(* the last line ends with a newline.  Fields are separated by single      *)
(* blanks and lines carry no leading or trailing blanks, so that a line    *)
(* with one field is that field as a string.  A section marker             *)
(* ($PhysicalNames, $Nodes, ...) is a field of one symbol.                 *)
(***************************************************************************)
EXTENDS Integers, Sequences, FiniteSets, TLC

(***************************************************************************)
(* Bounds of the model.                                                    *)
(***************************************************************************)
\* Largest number of record lines in a generated PhysicalNames section.
MaxRecords == 2

(***************************************************************************)
(* Characters and the string functions the parser uses.                    *)
(***************************************************************************)
DecimalDigits == {"0", "1", "2", "3", "4", "5", "6", "7", "8", "9"}

\* U+00B2 SUPERSCRIPT TWO: a digit for str.isdigit(), no decimal for int().
Sup2 == "sup2"

DigitValue(c) ==
    CASE c = "0" -> 0 [] c = "1" -> 1 [] c = "2" -> 2 [] c = "3" -> 3
      [] c = "4" -> 4 [] c = "5" -> 5 [] c = "6" -> 6 [] c = "7" -> 7
      [] c = "8" -> 8 [] c = "9" -> 9

\* str.isdigit(): at least one character, every character a digit.
IsDigit(s) ==
    /\ Len(s) > 0
    /\ \A i \in 1..Len(s) : s[i] \in DecimalDigits \cup {Sup2}

\* The digits of an int() literal: the string without its sign.
Unsigned(s) == IF Len(s) > 0 /\ s[1] \in {"-", "+"} THEN Tail(s) ELSE s

\* Whether int(s) returns (TRUE) or raises ValueError (FALSE).
IntParses(s) ==
    /\ Len(Unsigned(s)) > 0
    /\ \A i \in 1..Len(Unsigned(s)) : Unsigned(s)[i] \in DecimalDigits

RECURSIVE DecimalValue(_)
DecimalValue(d) ==
    IF d = <<>> THEN 0
    ELSE 10 * DecimalValue(SubSeq(d, 1, Len(d) - 1)) + DigitValue(d[Len(d)])

\* int(s), for a string int() accepts.
IntValue(s) ==
    IF Len(s) > 0 /\ s[1] = "-" THEN 0 - DecimalValue(Unsigned(s))
    ELSE DecimalValue(Unsigned(s))

\* s.strip('"'): every leading and trailing double quote removed.
RECURSIVE StripQuotes(_)
StripQuotes(s) ==
    IF s = <<>> THEN s
    ELSE IF s[1] = "\"" THEN StripQuotes(Tail(s))
    ELSE IF s[Len(s)] = "\"" THEN StripQuotes(SubSeq(s, 1, Len(s) - 1))
    ELSE s

(***************************************************************************)
(* Section markers.                                                        *)
(***************************************************************************)
MarkPhysicalNames == <<"$PhysicalNames">>
MarkEndPhysicalNames == <<"$EndPhysicalNames">>
MarkNodes == <<"$Nodes">>
MarkElements == <<"$Elements">>

\* Whether line k of the text ends with a newline.
Terminated(lines, nl, k) == k < Len(lines) \/ (k = Len(lines) /\ nl)

\* A marker followed by blanks only and a newline: `\$Marker\s*\n' can
\* match at line k only when the marker is the last field of the line.
MarkerEndsLine(lines, nl, k, marker) ==
    /\ Len(lines[k]) > 0
    /\ lines[k][Len(lines[k])] = marker
    /\ Terminated(lines, nl, k)

\* The first line after k that is not blank, Len(lines) + 1 if there is none.
RECURSIVE NextNonBlank(_, _)
NextNonBlank(lines, k) ==
    IF k + 1 > Len(lines) THEN Len(lines) + 1
    ELSE IF lines[k + 1] # <<>> THEN k + 1
    ELSE NextNonBlank(lines, k + 1)

\* Number of newline characters from the one ending line k to the end.
NewlinesFrom(lines, nl, k) == (Len(lines) - k) + (IF nl THEN 1 ELSE 0)

(***************************************************************************)
(* re.search(r'\$Marker\s*\n(.*?)\n', content) tried at the marker of line *)
(* k.  `\s*' takes the blank lines after the marker; the group is the      *)
(* first non-blank line if a newline ends it.  Otherwise the engine backs  *)
(* up and the group is empty, which needs two newlines after the marker.   *)
(***************************************************************************)
HeaderMatchAt(lines, nl, k, marker) ==
    LET j == NextNonBlank(lines, k) IN
    IF ~MarkerEndsLine(lines, nl, k, marker)
        THEN [found |-> FALSE, header |-> <<>>]
    ELSE IF j <= Len(lines) /\ Terminated(lines, nl, j)
        THEN [found |-> TRUE, header |-> lines[j]]
    ELSE IF j <= Len(lines)
        THEN [found |-> j > k + 1, header |-> <<>>]
    ELSE [found |-> NewlinesFrom(lines, nl, k) >= 2, header |-> <<>>]

\* re.search: the leftmost position at which the pattern matches.
RECURSIVE HeaderSearchFrom(_, _, _, _)
HeaderSearchFrom(lines, nl, k, marker) ==
    IF k > Len(lines) THEN [found |-> FALSE, header |-> <<>>]
    ELSE IF HeaderMatchAt(lines, nl, k, marker).found
        THEN HeaderMatchAt(lines, nl, k, marker)
    ELSE HeaderSearchFrom(lines, nl, k + 1, marker)

HeaderSearch(text, marker) == HeaderSearchFrom(text.lines, text.nl, 1, marker)

\* The position of the first field of a line equal to marker, 0 if none.
RECURSIVE FieldIndexFrom(_, _, _)
FieldIndexFrom(line, p, marker) ==
    IF p > Len(line) THEN 0
    ELSE IF line[p] = marker THEN p
    ELSE FieldIndexFrom(line, p + 1, marker)

\* The first line after k holding the marker as a field, 0 if none.
RECURSIVE NextLineWith(_, _, _)
NextLineWith(lines, k, marker) ==
    IF k + 1 > Len(lines) THEN 0
    ELSE IF FieldIndexFrom(lines[k + 1], 1, marker) > 0 THEN k + 1
    ELSE NextLineWith(lines, k + 1, marker)

\* str.strip() of a multi-line string, then split('\n'): blank lines are
\* dropped at both ends, and the empty string splits into one empty line.
RECURSIVE DropLeadingBlank(_)
DropLeadingBlank(ls) ==
    IF ls # <<>> /\ ls[1] = <<>> THEN DropLeadingBlank(Tail(ls)) ELSE ls

RECURSIVE DropTrailingBlank(_)
DropTrailingBlank(ls) ==
    IF ls # <<>> /\ ls[Len(ls)] = <<>>
        THEN DropTrailingBlank(SubSeq(ls, 1, Len(ls) - 1))
    ELSE ls

StripSplit(ls) ==
    LET s == DropTrailingBlank(DropLeadingBlank(ls)) IN
    IF s = <<>> THEN << <<>> >> ELSE s

(***************************************************************************)
(* re.search(r'\$PhysicalNames\s*\n(.*?)\$EndPhysicalNames', content,      *)
(* re.DOTALL) tried at the marker of line k: the group runs to the first   *)
(* $EndPhysicalNames after it, and holds the fields before it on its line. *)
(***************************************************************************)
PhysMatchAt(lines, nl, k) ==
    LET e == NextLineWith(lines, k, MarkEndPhysicalNames)
        p == FieldIndexFrom(lines[e], 1, MarkEndPhysicalNames)
    IN  IF ~MarkerEndsLine(lines, nl, k, MarkPhysicalNames) \/ e = 0
            THEN [found |-> FALSE, group |-> <<>>]
        ELSE [found |-> TRUE,
              group |-> SubSeq(lines, k + 1, e - 1)
                            \o << SubSeq(lines[e], 1, p - 1) >>]

RECURSIVE PhysSearchFrom(_, _, _)
PhysSearchFrom(lines, nl, k) ==
    IF k > Len(lines) THEN [found |-> FALSE, group |-> <<>>]
    ELSE IF PhysMatchAt(lines, nl, k).found THEN PhysMatchAt(lines, nl, k)
    ELSE PhysSearchFrom(lines, nl, k + 1)

PhysSearch(text) == PhysSearchFrom(text.lines, text.nl, 1)

Min(a, b) == IF a <= b THEN a ELSE b

(***************************************************************************)
(* The state.                                                              *)
(*   msh      the file at the path handed to _extract_mesh_statistics      *)
(*   content  what f.read() returned                                       *)
(*   spc      the position in _extract_mesh_statistics                     *)
(*   stats    the dict the function builds and returns                     *)
(*   exc      the exception raised inside the try block ("None": none)     *)
(***************************************************************************)
VARIABLES msh, content, spc, stats, exc,
          call, pc, subdivisions, geometry_gen, geo_content, geo_size, disk,
          raised, result, effects, summary,
          builder, lastCall,
          args, config, cli

vars ==
    <<msh, content, spc, stats, exc,
      call, pc, subdivisions, geometry_gen, geo_content, geo_size, disk,
      raised, result, effects, summary,
      builder, lastCall,
      args, config, cli>>

\* The variables of a call of _extract_mesh_statistics, of a call of
\* create_mesh, of the caller that prints its result, of a MeshBuilder, and
\* of the command line being combined with a configuration file.
parserVars == <<msh, content, spc, stats, exc>>

meshVars ==
    <<call, pc, subdivisions, geometry_gen, geo_content, geo_size, disk,
      raised, result, effects>>

builderVars == <<builder, lastCall>>

cliVars == <<args, config, cli>>

outsideParser == <<meshVars, summary, builderVars, cliVars>>
outsideCall == <<parserVars, summary, builderVars, cliVars>>
outsideBuilder == <<parserVars, meshVars, summary, cliVars>>
outsideCli == <<parserVars, meshVars, summary, builderVars>>

\* The dict of lines 22-26.
DefaultStats ==
    [physical_groups |-> [n \in {} |-> 0], num_vertices |-> 0, num_elements |-> 0]

NoText == [lines |-> <<>>, nl |-> FALSE]

\* As Put, but an entry already there is kept.
PutIfAbsent(groups, name, info) ==
    [n \in DOMAIN groups \cup {name} |->
        IF n \in DOMAIN groups THEN groups[n] ELSE info]

\* physical_groups[name] = info
Put(groups, name, info) ==
    [n \in DOMAIN groups \cup {name} |-> IF n = name THEN info ELSE groups[n]]

(***************************************************************************)
(* The body of the `for' loop for one record line (lines 39-45).  The      *)
(* dict display is evaluated before the entry is stored: a failing int()   *)
(* stores nothing, and leaves st.stats as it was.                          *)
(***************************************************************************)
ReadRecord(parts, st) ==
    IF Len(parts) >= 3 THEN
        IF IntParses(parts[1]) /\ IntParses(parts[2]) THEN
            [st EXCEPT !.stats.physical_groups =
                Put(@, StripQuotes(parts[3]),
                    [dimension |-> IntValue(parts[1]), tag |-> IntValue(parts[2])])]
        ELSE [st EXCEPT !.exc = "ValueError"]
    ELSE st

\* for i in range(1, min(num_groups + 1, len(lines))): lines[i] is L[i + 1].
RECURSIVE RecordLoop(_, _, _, _)
RecordLoop(L, i, last, st) ==
    IF i > last \/ st.exc # "None" THEN st
    ELSE RecordLoop(L, i + 1, last, ReadRecord(L[i], st))

\* As LastRecordIndex, but for a loop that runs over every line present.
LastRecordIndexAll(n, L) == Len(L)

\* range(1, min(num_groups + 1, len(lines))): the index in L of the last
\* line the loop reads.
LastRecordIndex(n, L) == Min(n + 1, Len(L))

\* lines[0].isdigit(): the stripped group's first line is one field of digits.
CountLineIsDigit(L) == Len(L[1]) = 1 /\ IsDigit(L[1][1])

\* Lines 33-45: the PhysicalNames section.
ExtractPhysicalGroups(text, st) ==
    LET m == PhysSearch(text)
        L == StripSplit(m.group)
    IN  IF ~m.found THEN st
        ELSE IF ~CountLineIsDigit(L) THEN st
        ELSE IF ~IntParses(L[1][1]) THEN [st EXCEPT !.exc = "ValueError"]
        ELSE RecordLoop(L, 2, LastRecordIndex(IntValue(L[1][1]), L), st)

\* As CountField, but the header's second field.
CountFieldSecond(header) == header[2]

\* The field of the header that holds the total count: node_header[3].
CountField(header) == header[4]

\* Lines 48-52 and 55-59: the count in the header of a Nodes or Elements section.
ExtractCount(text, marker, key, st) ==
    LET m == HeaderSearch(text, marker) IN
    IF ~m.found THEN st
    ELSE IF Len(m.header) < 4 THEN st
    ELSE IF ~IntParses(CountField(m.header)) THEN [st EXCEPT !.exc = "ValueError"]
    ELSE [st EXCEPT !.stats[key] = IntValue(CountField(m.header))]

\* `except Exception': every exception the body raises derives from Exception.
ExceptionClasses ==
    {"FileNotFoundError", "UnicodeDecodeError", "ValueError", "OSError",
     "ValidationError", "ConfigurationError"}

\* As HandlerCatches, but for `except ValueError'.
HandlerCatchesOnlyValueError(kind) == kind \in {"ValueError", "UnicodeDecodeError"}

HandlerCatches(kind) == kind \in ExceptionClasses

(***************************************************************************)
(* The steps of _extract_mesh_statistics, each a function of the call's    *)
(* frame s = [spc, content, stats, exc].                                   *)
(***************************************************************************)
\* Where control goes after a statement of the try block.
After(s, st, next) ==
    [s EXCEPT !.stats = st.stats, !.exc = st.exc,
              !.spc = IF st.exc = "None" THEN next ELSE "except"]

Frame(s) == [stats |-> s.stats, exc |-> s.exc]

\* Lines 29-30: open(msh_file) and f.read().
OpenStep(file, s) ==
    IF file.kind = "missing"
        THEN [s EXCEPT !.exc = "FileNotFoundError", !.spc = "except"]
    ELSE IF file.kind = "undecodable"
        THEN [s EXCEPT !.exc = "UnicodeDecodeError", !.spc = "except"]
    ELSE [s EXCEPT !.content = [lines |-> file.lines, nl |-> file.nl],
                   !.spc = "phys"]

PhysStep(s) == After(s, ExtractPhysicalGroups(s.content, Frame(s)), "nodes")

\* As NodesStep, but the count is stored under the Elements key.
NodesStepWrongKey(s) ==
    After(s, ExtractCount(s.content, MarkNodes, "num_elements", Frame(s)), "elems")

NodesStep(s) ==
    After(s, ExtractCount(s.content, MarkNodes, "num_vertices", Frame(s)), "elems")

ElemsStep(s) ==
    After(s, ExtractCount(s.content, MarkElements, "num_elements", Frame(s)), "return")

\* Lines 61-63: except Exception: pass.
ExceptStep(s) ==
    [s EXCEPT !.spc = IF HandlerCatches(s.exc) THEN "return" ELSE "raised"]

\* Line 65: return stats.
ReturnStep(s) == [s EXCEPT !.spc = "done"]

StatsStep(file, s) ==
    CASE s.spc = "open" -> OpenStep(file, s)
      [] s.spc = "phys" -> PhysStep(s)
      [] s.spc = "nodes" -> NodesStep(s)
      [] s.spc = "elems" -> ElemsStep(s)
      [] s.spc = "except" -> ExceptStep(s)
      [] s.spc = "return" -> ReturnStep(s)

\* The frame on entry (lines 22-26).
EntryFrame ==
    [spc |-> "open", content |-> NoText, stats |-> DefaultStats, exc |-> "None"]

\* A whole call: the frame when the function has returned or raised.
RECURSIVE RunStats(_, _)
RunStats(file, s) ==
    IF s.spc \in {"done", "raised"} THEN s ELSE RunStats(file, StatsStep(file, s))

ExtractMeshStatistics(file) == RunStats(file, EntryFrame)

(***************************************************************************)
(* The steps as actions on the state.                                      *)
(***************************************************************************)
Cur == [spc |-> spc, content |-> content, stats |-> stats, exc |-> exc]

Becomes(s) ==
    /\ spc' = s.spc
    /\ content' = s.content
    /\ stats' = s.stats
    /\ exc' = s.exc
    /\ UNCHANGED msh
    /\ UNCHANGED outsideParser

ReadFile == spc = "open" /\ Becomes(OpenStep(msh, Cur))

ParsePhysicalNames == spc = "phys" /\ Becomes(PhysStep(Cur))

ParseNodes == spc = "nodes" /\ Becomes(NodesStep(Cur))

ParseElements == spc = "elems" /\ Becomes(ElemsStep(Cur))

ExceptPass == spc = "except" /\ Becomes(ExceptStep(Cur))

ReturnStats == spc = "return" /\ Becomes(ReturnStep(Cur))

(***************************************************************************)
(* The mesh files the parser is run on: a PhysicalNames, a Nodes and an    *)
(* Elements section, each absent, well-formed, truncated or malformed.     *)
(***************************************************************************)
QuotedA == <<"\"", "A", "\"">>
QuotedB == <<"\"", "B", "\"">>

RecordLines ==
    { << <<"2">>, <<"1">>, QuotedA >>,      \* a surface named A
      << <<"3">>, <<"2">>, QuotedA >>,      \* a volume named A
      << <<"3">>, <<"1">>, QuotedB >>,      \* a volume named B
      << <<"2">>, <<"1">> >>,               \* a record cut short
      << <<"x">>, <<"1">>, QuotedB >>,      \* a non-numeric dimension
      << <<"2">>, <<"x">>, QuotedB >> }     \* a non-numeric tag

CountLines == { << <<"1">> >>, << <<"2">> >>, << <<"x">> >>, << <<Sup2>> >> }

SeqsUpTo(S, n) == UNION { [1..m -> S] : m \in 0..n }

PhysSections ==
    { <<>> } \cup
    { <<  <<MarkPhysicalNames>>, c >> \o rs \o end :
        c \in CountLines, rs \in SeqsUpTo(RecordLines, MaxRecords),
        end \in { <<>>, << <<MarkEndPhysicalNames>> >> } }

HeaderLines ==
    { << <<"1">>, <<"7">>, <<"1">>, <<"1", "2">> >>,   \* the count is 12
      << <<"1">>, <<"7">>, <<"1">>, <<"-", "4">> >>,   \* a negative count
      << <<"1">>, <<"7">>, <<"1">>, <<"x">> >>,        \* a non-numeric count
      << <<"1">>, <<"7">>, <<"1">> >> }                \* three fields only

\* The header of Gmsh's own files, here after an empty line.
GoodHeader == << <<"1">>, <<"7">>, <<"1">>, <<"1", "2">> >>

HeaderSections(marker) ==
    { <<>>, << <<marker>>, <<>>, GoodHeader >> }
    \cup { << <<marker>>, h >> : h \in HeaderLines }

MeshTexts ==
    { [kind |-> "text", lines |-> p \o n \o e, nl |-> b] :
        p \in PhysSections, n \in HeaderSections(MarkNodes),
        e \in HeaderSections(MarkElements), b \in BOOLEAN }

MeshFiles ==
    { [kind |-> k, lines |-> <<>>, nl |-> FALSE] : k \in {"missing", "undecodable"} }
    \cup { f \in MeshTexts : f.lines # <<>> \/ ~f.nl }

(***************************************************************************)
(* create_mesh.  Python values that may be None are sequences of length at *)
(* most one: None is the empty one.  An argument that may be a list, None  *)
(* or a value of another type is a record [t, v], PyNone for None.         *)
(* Thicknesses, radius and                                                 *)
(* ml are integers here; progress_callback is None, verbose is False and   *)
(* output_name is "mesh".                                                  *)
(***************************************************************************)
MaxLayers == 2

None == <<>>
Some(x) == <<x>>

PyNone == [t |-> "None", v |-> <<>>]
PyList(v) == [t |-> "list", v |-> v]
\* A value that is neither None nor a list or tuple, such as a string.
PyOther == [t |-> "other", v |-> <<>>]
IsListOrTuple(x) == x.t = "list"

RECURSIVE sum(_)
sum(values) == IF values = <<>> THEN 0 ELSE values[1] + sum(Tail(values))

Raise(kind, message) == [raised |-> kind, message |-> message]
NoError == [raised |-> "None", message |-> ""]

validate_positive_float(value, name) ==
    IF value <= 0 THEN Raise("ValidationError", name \o " must be positive")
    ELSE NoError

validate_positive_list(values, name) ==
    IF \E i \in DOMAIN values : values[i] <= 0
    THEN Raise("ValidationError", "All " \o name \o " must be positive")
    ELSE NoError

validate_matching_lengths(list1, list2, name1, name2) ==
    IF Len(list1) # Len(list2)
    THEN Raise("ValidationError",
               "Number of " \o name1 \o " must match number of " \o name2)
    ELSE NoError

\* The statements of the validation block in order; the first that raises
\* ends the block.
ValidationChecks(c) ==
    << IF ~IsListOrTuple(c.layers)
       THEN Raise("ValueError", "layers must be a list or tuple of numbers")
       ELSE NoError,
       IF c.subdivisions # PyNone /\ ~IsListOrTuple(c.subdivisions)
       THEN Raise("ValueError", "subdivisions must be a list or tuple of integers")
       ELSE NoError,
       IF c.layer_names # PyNone /\ ~IsListOrTuple(c.layer_names)
       THEN Raise("ValueError", "layer_names must be a list or tuple of strings")
       ELSE NoError,
       validate_positive_float(c.ml, "mesh length"),
       validate_positive_float(c.radius, "radius"),
       validate_positive_list(c.layers.v, "layer thicknesses"),
       IF c.subdivisions = PyNone THEN NoError
       ELSE validate_matching_lengths(c.subdivisions.v, c.layers.v,
                                      "subdivisions", "layers"),
       IF c.layer_names = PyNone THEN NoError
       ELSE validate_matching_lengths(c.layer_names.v, c.layers.v,
                                      "layer names", "layers") >>

DefaultSubdivisions(layers) == PyList([i \in 1..Len(layers) |-> 1])

InputValidation(c) ==
    LET checks == ValidationChecks(c)
        failed == { i \in DOMAIN checks : checks[i].raised # "None" }
        first  == CHOOSE i \in failed : \A j \in failed : i <= j
    IN  IF failed # {}
        THEN [error |-> checks[first], subdivisions |-> c.subdivisions]
        ELSE [error |-> NoError,
              subdivisions |-> IF c.subdivisions = PyNone
                               THEN DefaultSubdivisions(c.layers.v)
                               ELSE c.subdivisions]

NoParameters ==
    [ml |-> None, radius |-> None, layers |-> PyNone, subdivisions |-> PyNone,
     layer_names |-> PyNone, total_height |-> None, num_layers |-> None]

Parameters(c, subs) ==
    [ml |-> Some(c.ml), radius |-> Some(c.radius), layers |-> c.layers,
     subdivisions |-> subs, layer_names |-> c.layer_names,
     total_height |-> Some(sum(c.layers.v)), num_layers |-> Some(Len(c.layers.v))]

\* As ParametersAfterException, but without the sum and the count.
ParametersWithoutTotals(c, subs) ==
    [Parameters(c, subs) EXCEPT !.total_height = None, !.num_layers = None]

\* The parameters of the last handler: the sum and the count only of a
\* non-empty layer list.
ParametersAfterException(c, subs) ==
    [Parameters(c, subs) EXCEPT
        !.total_height = IF c.layers.v # <<>> THEN @ ELSE None,
        !.num_layers = IF c.layers.v # <<>> THEN @ ELSE None]

EmptyDict == <<>>
GeoFile == "mesh.geo"
MshFile == "mesh.msh"

\* As ValidationFailure, but naming the .geo path as the last handler does.
ValidationFailureNamesGeoFile(message) ==
    [success |-> FALSE, geo_file |-> Some(GeoFile), msh_file |-> None,
     error |-> Some(message), geo_size |-> None, msh_size |-> None,
     parameters |-> NoParameters, mesh_info |-> EmptyDict]

ValidationFailure(message) ==
    [success |-> FALSE, geo_file |-> None, msh_file |-> None,
     error |-> Some(message), geo_size |-> None, msh_size |-> None,
     parameters |-> NoParameters, mesh_info |-> EmptyDict]

\* As GeoOnlyResult, but naming the .msh path as a completed run does.
GeoOnlyResultNamesMshFile(c, subs, size) ==
    [success |-> TRUE, geo_file |-> Some(GeoFile), msh_file |-> Some(MshFile),
     error |-> None, geo_size |-> size, msh_size |-> None,
     parameters |-> Parameters(c, subs), mesh_info |-> EmptyDict]

GeoOnlyResult(c, subs, size) ==
    [success |-> TRUE, geo_file |-> Some(GeoFile), msh_file |-> None,
     error |-> None, geo_size |-> size, msh_size |-> None,
     parameters |-> Parameters(c, subs), mesh_info |-> EmptyDict]

NotCreatedResult(c, subs, size) ==
    [success |-> FALSE, geo_file |-> Some(GeoFile), msh_file |-> None,
     error |-> Some("Mesh file mesh.msh was not created"),
     geo_size |-> size, msh_size |-> None,
     parameters |-> Parameters(c, subs), mesh_info |-> EmptyDict]

SuccessResult(c, subs, size, msh_size, mesh_info) ==
    [success |-> TRUE, geo_file |-> Some(GeoFile), msh_file |-> Some(MshFile),
     error |-> None, geo_size |-> size, msh_size |-> msh_size,
     parameters |-> Parameters(c, subs), mesh_info |-> mesh_info]

ExceptionResult(c, subs, message, geoExists) ==
    [success |-> FALSE,
     geo_file |-> IF geoExists THEN Some(GeoFile) ELSE None,
     msh_file |-> None, error |-> Some(message),
     geo_size |-> None, msh_size |-> None,
     parameters |-> ParametersAfterException(c, subs), mesh_info |-> EmptyDict]

(***************************************************************************)
(* create_mesh_from_config up to its call of create_mesh, and               *)
(* print_mesh_summary.                                                     *)
(***************************************************************************)
\* What loading the configuration file comes to: a dict with the three
\* required keys, no file, a file that is no JSON, a dict lacking a key.
ConfigOutcomes == {"loaded", "not_found", "not_json", "no_ml", "no_radius", "no_layers"}

ConfigCheck(outcome) ==
    IF outcome = "not_found"
        THEN Raise("FileNotFoundError", "Config file not found")
    ELSE IF outcome = "not_json"
        THEN Raise("ValueError", "Expecting value")
    ELSE IF outcome = "no_ml"
        THEN Raise("ValueError", "Config file missing required parameter: 'ml'")
    ELSE IF outcome = "no_radius"
        THEN Raise("ValueError", "Config file missing required parameter: 'radius'")
    ELSE IF outcome = "no_layers"
        THEN Raise("ValueError", "Config file missing required parameter: 'layers'")
    ELSE NoError

ConfigFailure(message) ==
    [success |-> FALSE, geo_file |-> None, msh_file |-> None,
     error |-> Some("Error loading config: " \o message),
     geo_size |-> None, msh_size |-> None,
     parameters |-> NoParameters, mesh_info |-> EmptyDict]

\* The exception print_mesh_summary raises on a result, NoError when it
\* prints the summary through.
print_mesh_summary(r) ==
    IF r.success
    THEN IF r.geo_size = None \/ r.msh_size = None
             THEN Raise("TypeError", "unsupported operand type(s) for /: 'NoneType' and 'int'")
         ELSE IF "physical_groups" \notin DOMAIN r.mesh_info
             THEN Raise("KeyError", "physical_groups")
         ELSE NoError
    ELSE NoError

(***************************************************************************)
(* GeometryGenerator.  geometry.py is not among the sources; the generator *)
(* is the builder of the specification's sections 3 and 4.1: it takes the  *)
(* stack as given, refuses a stack that breaks the stack invariant, and    *)
(* registers one physical volume per layer, tagged from 1 upwards.  The    *)
(* script is the record of what it encodes; its length is the number of    *)
(* its statements.                                                         *)
(***************************************************************************)
\* As GeometryGenerator, but the layer names are not handed over.
GeometryGeneratorWithoutNames(ml, radius, layer_thicknesses, subs, layer_names) ==
    [ml |-> ml, radius |-> radius, layer_thicknesses |-> layer_thicknesses,
     subdivisions |-> subs, layer_names |-> PyNone]

GeometryGenerator(ml, radius, layer_thicknesses, subs, layer_names) ==
    [ml |-> ml, radius |-> radius, layer_thicknesses |-> layer_thicknesses,
     subdivisions |-> subs, layer_names |-> layer_names]

StackInvariant(g) ==
    /\ Len(g.layer_thicknesses) >= 1
    /\ g.radius > 0
    /\ g.ml > 0
    /\ \A i \in DOMAIN g.layer_thicknesses : g.layer_thicknesses[i] > 0
    /\ Len(g.subdivisions) = Len(g.layer_thicknesses)
    /\ \A i \in DOMAIN g.subdivisions : g.subdivisions[i] >= 1
    /\ g.layer_names # PyNone =>
         /\ Len(g.layer_names.v) = Len(g.layer_thicknesses)
         /\ \A i, j \in DOMAIN g.layer_names.v :
              i # j => g.layer_names.v[i] # g.layer_names.v[j]

\* "Layer_<i>", 1-based.
DefaultLayerName(i) == [given |-> FALSE, text |-> "Layer_", index |-> i]
GivenLayerName(name) == [given |-> TRUE, text |-> name, index |-> 0]

VolumeGroups(g) ==
    [i \in DOMAIN g.layer_thicknesses |->
        [dimension |-> 3, tag |-> i,
         name |-> IF g.layer_names # PyNone
                  THEN GivenLayerName(g.layer_names.v[i])
                  ELSE DefaultLayerName(i)]]

generate_geo_script(g) ==
    IF ~StackInvariant(g)
    THEN [error |-> Raise("ConfigurationError", "invalid layer stack"),
          script |-> None]
    ELSE [error |-> NoError,
          script |-> Some([total_height |-> sum(g.layer_thicknesses),
                           volume_groups |-> VolumeGroups(g)])]

len(script) == 2 * Len(script.volume_groups)

(***************************************************************************)
(* GmshInterface and the file system.                                      *)
(***************************************************************************)
\* write_geometry_file: any failure of mkdir, open or write becomes sys.exit.
WriteOutcomes == {"written", "OSError"}

write_geometry_file(outcome) ==
    IF outcome # "written"
    THEN Raise("SystemExit", "Failed to write geometry file")
    ELSE NoError

\* run_mesh_generation: mkdir is outside the try block; Popen is not waited
\* for; a non-zero exit of the batch run becomes sys.exit; an absent gmsh
\* executable is a FileNotFoundError, which no handler there names.
GmshOutcomes == {"exit_zero", "exit_nonzero", "not_installed", "mkdir_fails"}

\* The gmsh process was started: subprocess.run or Popen found the executable.
GmshStarted(outcome) == outcome \in {"exit_zero", "exit_nonzero"}

run_mesh_generation(gui_mode, outcome) ==
    IF outcome = "mkdir_fails" THEN Raise("OSError", "cannot create directory")
    ELSE IF outcome = "not_installed"
        THEN Raise("FileNotFoundError", "No such file or directory: 'gmsh'")
    ELSE IF ~gui_mode /\ outcome = "exit_nonzero"
        THEN Raise("SystemExit", "Gmsh failed")
    ELSE NoError

\* The bytes of a character, a field, a line and a text.
SymbolBytes(c) ==
    IF c = MarkPhysicalNames[1] THEN 14
    ELSE IF c = MarkEndPhysicalNames[1] THEN 17
    ELSE IF c = MarkNodes[1] THEN 6
    ELSE IF c = MarkElements[1] THEN 9
    ELSE IF c = Sup2 THEN 2
    ELSE 1

RECURSIVE FieldBytes(_)
FieldBytes(f) == IF f = <<>> THEN 0 ELSE SymbolBytes(f[1]) + FieldBytes(Tail(f))

RECURSIVE LineBytes(_)
LineBytes(line) ==
    IF line = <<>> THEN 0
    ELSE FieldBytes(line[1]) + (IF Len(line) > 1 THEN 1 ELSE 0)
         + LineBytes(Tail(line))

RECURSIVE LinesBytes(_)
LinesBytes(lines) ==
    IF lines = <<>> THEN 0
    ELSE LineBytes(lines[1]) + (IF Len(lines) > 1 THEN 1 ELSE 0)
         + LinesBytes(Tail(lines))

getsize(file) == LinesBytes(file.lines) + (IF file.nl THEN 1 ELSE 0)

\* Mesh files gmsh may leave: a complete one, one without sections, an
\* empty one.
CompleteMesh ==
    [kind |-> "text",
     lines |-> << <<MarkPhysicalNames>>, << <<"2">> >>,
                  << <<"2">>, <<"1">>, QuotedA >>,
                  << <<"3">>, <<"1">>, QuotedB >>,
                  <<MarkEndPhysicalNames>>,
                  <<MarkNodes>>, GoodHeader,
                  <<MarkElements>>, GoodHeader >>,
     nl |-> TRUE]

GmshMeshes ==
    { CompleteMesh,
      [kind |-> "text", lines |-> << << <<"x">> >> >>, nl |-> TRUE],
      [kind |-> "text", lines |-> <<>>, nl |-> FALSE] }

\* A mesh file left at the path by an earlier run.
StaleMesh ==
    [kind |-> "text", lines |-> << <<MarkNodes>>, GoodHeader >>, nl |-> TRUE]

(***************************************************************************)
(* The calls: every argument valid and invalid, lists up to MaxLayers.     *)
(***************************************************************************)
Thicknesses == {0, 1, 2}
SubdivisionCounts == {0, 2}
LayerNames == {"A", "B"}

Calls ==
    [ml : {0, 2}, radius : {0, 5},
     layers : {PyOther} \cup {PyList(l) : l \in SeqsUpTo(Thicknesses, MaxLayers)},
     subdivisions : {PyNone, PyOther}
                    \cup {PyList(l) : l \in SeqsUpTo(SubdivisionCounts, MaxLayers)},
     layer_names : {PyNone, PyOther}
                   \cup {PyList(l) : l \in SeqsUpTo(LayerNames, MaxLayers)},
     geo_only : BOOLEAN, gui_mode : BOOLEAN]

Disks == [geo : BOOLEAN, msh : {None, Some(StaleMesh)}]

\* The call create_mesh_from_config has yet to make: only the flags it
\* passes through are known.
NoCall ==
    [ml |-> 2, radius |-> 5, layers |-> PyList(<<1>>),
     subdivisions |-> PyNone, layer_names |-> PyNone,
     geo_only |-> FALSE, gui_mode |-> FALSE]

(***************************************************************************)
(* The steps of create_mesh.  pc is the statement the call is at; raised   *)
(* is the exception on its way to the last handler; disk is what the two   *)
(* output paths hold; effects is what the call has done outside itself:    *)
(* "geo_written" once the .geo file is written, "gmsh_started" once the    *)
(* gmsh process has been started, "msh_written" once gmsh has written the  *)
(* mesh file.                                                              *)
(***************************************************************************)
\* create_mesh_from_config: the configuration is loaded and create_mesh is
\* called with its values and with the flags passed through; a failure is
\* returned as a result.
LoadConfig ==
    /\ pc = "config"
    /\ \E outcome \in ConfigOutcomes, c \in Calls :
         LET e == ConfigCheck(outcome)
         IN  IF e = NoError
             THEN /\ c.geo_only = call.geo_only /\ c.gui_mode = call.gui_mode
                  /\ call' = c
                  /\ subdivisions' = c.subdivisions
                  /\ pc' = "validate"
                  /\ UNCHANGED <<raised, result>>
             ELSE IF HandlerCatches(e.raised)
             THEN /\ c = call
                  /\ result' = Some(ConfigFailure(e.message))
                  /\ pc' = "done"
                  /\ UNCHANGED <<call, subdivisions, raised>>
             ELSE /\ c = call
                  /\ raised' = e
                  /\ pc' = "exited"
                  /\ UNCHANGED <<call, subdivisions, result>>
    /\ UNCHANGED <<geometry_gen, geo_content, geo_size, disk, effects>>
    /\ UNCHANGED outsideCall

\* The validation block and its handler.
ValidateInputs ==
    /\ pc = "validate"
    /\ LET v == InputValidation(call)
       IN  IF v.error = NoError
           THEN /\ subdivisions' = v.subdivisions
                /\ pc' = "construct"
                /\ UNCHANGED <<raised, result>>
           ELSE IF HandlerCatches(v.error.raised)
           THEN /\ result' = Some(ValidationFailure(v.error.message))
                /\ pc' = "done"
                /\ UNCHANGED <<subdivisions, raised>>
           ELSE /\ raised' = v.error
                /\ pc' = "exited"
                /\ UNCHANGED <<subdivisions, result>>
    /\ UNCHANGED <<call, geometry_gen, geo_content, geo_size, disk, effects>>
    /\ UNCHANGED outsideCall

\* Step 1: the generator is constructed from the arguments.
CreateGenerator ==
    /\ pc = "construct"
    /\ geometry_gen' = Some(GeometryGenerator(call.ml, call.radius, call.layers.v,
                                              subdivisions.v, call.layer_names))
    /\ pc' = "generate"
    /\ UNCHANGED <<call, subdivisions, geo_content, geo_size, disk, raised, result,
                   effects>>
    /\ UNCHANGED outsideCall

\* Step 2: the script and its length.
GenerateScript ==
    /\ pc = "generate"
    /\ LET g == generate_geo_script(geometry_gen[1])
       IN  IF g.error = NoError
           THEN /\ geo_content' = g.script
                /\ geo_size' = Some(len(g.script[1]))
                /\ pc' = "write"
                /\ UNCHANGED raised
           ELSE /\ raised' = g.error
                /\ pc' = "except"
                /\ UNCHANGED <<geo_content, geo_size>>
    /\ UNCHANGED <<call, subdivisions, geometry_gen, disk, result, effects>>
    /\ UNCHANGED outsideCall

\* Step 3: the .geo file is written; with geo_only the call returns here.
WriteGeometry ==
    /\ pc = "write"
    /\ \E outcome \in WriteOutcomes, created \in BOOLEAN :
         LET w == write_geometry_file(outcome)
         IN  IF w = NoError
             THEN /\ created
                  /\ disk' = [disk EXCEPT !.geo = TRUE]
                  /\ effects' = effects \cup {"geo_written"}
                  /\ UNCHANGED raised
                  /\ IF call.geo_only
                     THEN /\ result' = Some(GeoOnlyResult(call, subdivisions, geo_size))
                          /\ pc' = "done"
                     ELSE /\ pc' = "mesh"
                          /\ UNCHANGED result
             ELSE /\ disk' = [disk EXCEPT !.geo = @ \/ created]
                  /\ effects' = effects
                  /\ raised' = w
                  /\ pc' = "except"
                  /\ UNCHANGED result
    /\ UNCHANGED <<call, subdivisions, geometry_gen, geo_content, geo_size>>
    /\ UNCHANGED outsideCall

\* Step 4: gmsh runs.  Only a batch run that exits with zero has had the
\* time to write the mesh file, and it may have written none.
RunGmsh ==
    /\ pc = "mesh"
    /\ \E outcome \in GmshOutcomes, written \in {None} \cup {Some(f) : f \in GmshMeshes} :
         LET r == run_mesh_generation(call.gui_mode, outcome)
         IN  /\ IF ~call.gui_mode /\ outcome = "exit_zero" /\ written # None
                THEN disk' = [disk EXCEPT !.msh = written]
                ELSE written = None /\ UNCHANGED disk
             /\ effects' = effects
                    \cup (IF GmshStarted(outcome) THEN {"gmsh_started"} ELSE {})
                    \cup (IF written # None THEN {"msh_written"} ELSE {})
             /\ IF r = NoError
                THEN pc' = "check" /\ UNCHANGED raised
                ELSE pc' = "except" /\ raised' = r
    /\ UNCHANGED <<call, subdivisions, geometry_gen, geo_content, geo_size, result>>
    /\ UNCHANGED outsideCall

\* The statistics of the mesh file, {} when reading them raises an Exception.
MeshInfo(file) ==
    LET f == ExtractMeshStatistics(file)
    IN  IF f.spc = "raised"
        THEN [error |-> Raise(f.exc, "statistics"), mesh_info |-> EmptyDict]
        ELSE [error |-> NoError, mesh_info |-> f.stats]

\* Step 5: the size and the statistics of the mesh file, and the result.
CheckResults ==
    /\ pc = "check"
    /\ IF disk.msh # None
       THEN LET m == MeshInfo(disk.msh[1])
            IN  IF m.error = NoError \/ HandlerCatches(m.error.raised)
                THEN /\ result' = Some(SuccessResult(call, subdivisions, geo_size,
                                                     Some(getsize(disk.msh[1])),
                                                     m.mesh_info))
                     /\ pc' = "done"
                     /\ UNCHANGED raised
                ELSE /\ raised' = m.error
                     /\ pc' = "except"
                     /\ UNCHANGED result
       ELSE /\ result' = Some(IF ~call.gui_mode
                              THEN NotCreatedResult(call, subdivisions, geo_size)
                              ELSE SuccessResult(call, subdivisions, geo_size,
                                                 None, EmptyDict))
            /\ pc' = "done"
            /\ UNCHANGED raised
    /\ UNCHANGED <<call, subdivisions, geometry_gen, geo_content, geo_size, disk,
                   effects>>
    /\ UNCHANGED outsideCall

\* The last handler, `except Exception'.
ExceptionCaught ==
    /\ pc = "except"
    /\ HandlerCatches(raised.raised)
    /\ result' = Some(ExceptionResult(call, subdivisions, raised.message, disk.geo))
    /\ pc' = "done"
    /\ UNCHANGED <<call, subdivisions, geometry_gen, geo_content, geo_size, disk, raised,
                   effects>>
    /\ UNCHANGED outsideCall

\* An exception the handler does not name leaves create_mesh; SystemExit
\* ends the process unless a caller catches it.
ExceptionPropagates ==
    /\ pc = "except"
    /\ ~HandlerCatches(raised.raised)
    /\ pc' = "exited"
    /\ UNCHANGED <<call, subdivisions, geometry_gen, geo_content, geo_size, disk,
                   raised, result, effects>>
    /\ UNCHANGED outsideCall

\* The caller hands the returned result to print_mesh_summary.
PrintSummary ==
    /\ pc = "done" /\ result # None
    /\ summary = "none"
    /\ LET e == print_mesh_summary(result[1])
       IN  summary' = IF e = NoError THEN "printed" ELSE e.raised
    /\ UNCHANGED <<parserVars, meshVars, builderVars, cliVars>>

(***************************************************************************)
(* MeshBuilder.  builder holds the fields of the object; a name in         *)
(* _layer_names is None or a string.  names_given is no field of the       *)
(* object: it keeps the name each add_layer call was given, None for an    *)
(* unnamed layer.  lastCall is the method called last on the builder: the  *)
(* fields at entry, the exception it raised, and the arguments of the      *)
(* create_mesh call it made.                                               *)
(***************************************************************************)
\* MeshBuilder.__init__
NewBuilder ==
    [radius |-> None, ml |-> None, layers |-> <<>>, subdivisions |-> <<>>,
     layer_names |-> <<>>, gui_mode |-> FALSE, geo_only |-> FALSE,
     names_given |-> <<>>]

MethodCall(method, self, error, made) ==
    [method |-> method, self |-> self, raised |-> error, call |-> made]

\* No MeshBuilder is in use.
BuilderIdle ==
    /\ builder = NewBuilder
    /\ lastCall = MethodCall("__init__", NewBuilder, NoError, None)

(***************************************************************************)
(* The command line.  args is the namespace parse_args returns, with the   *)
(* attributes ml, layers, subdivisions, geo and gui; config is the dict of *)
(* the configuration file, each key absent (None) or present with a value; *)
(* cli is where the program is, the attributes the user gave on the        *)
(* command line, and the namespace as apply_config_to_args received it.    *)
(***************************************************************************)
\* parser.get_default(key): the namespace of an empty command line.
ParserDefaults ==
    [ml |-> None, layers |-> PyNone, subdivisions |-> PyNone,
     geo |-> "mesh.geo", gui |-> FALSE]

NoConfig ==
    [ml |-> None, layers |-> None, subdivisions |-> None, geo |-> None,
     gui |-> None, author |-> None]

\* No command line is being processed.
CliIdle ==
    /\ args = ParserDefaults
    /\ config = NoConfig
    /\ cli = [pc |-> "idle", given |-> {}, entry |-> ParserDefaults]

\* No call of _extract_mesh_statistics is in progress.
ParserIdle ==
    /\ msh = [kind |-> "missing", lines |-> <<>>, nl |-> FALSE]
    /\ content = NoText
    /\ spc = "done"
    /\ stats = DefaultStats
    /\ exc = "None"

\* No call of create_mesh is in progress.
CallIdle ==
    /\ call = NoCall
    /\ pc = "idle"
    /\ subdivisions = PyNone
    /\ geometry_gen = None
    /\ geo_content = None
    /\ geo_size = None
    /\ disk = [geo |-> FALSE, msh |-> None]
    /\ raised = NoError
    /\ result = None
    /\ effects = {}
    /\ summary = "none"

\* A call of create_mesh, or a call of create_mesh_from_config.
Init ==
    /\ \/ pc = "validate" /\ call \in Calls
       \/ /\ pc = "config"
          /\ \E g, u \in BOOLEAN : call = [NoCall EXCEPT !.geo_only = g, !.gui_mode = u]
    /\ disk \in Disks
    /\ subdivisions = call.subdivisions
    /\ geometry_gen = None
    /\ geo_content = None
    /\ geo_size = None
    /\ raised = NoError
    /\ result = None
    /\ effects = {}
    /\ summary = "none"
    /\ ParserIdle
    /\ BuilderIdle
    /\ CliIdle

Next ==
    \/ LoadConfig
    \/ ValidateInputs
    \/ CreateGenerator
    \/ GenerateScript
    \/ WriteGeometry
    \/ RunGmsh
    \/ CheckResults
    \/ ExceptionCaught
    \/ ExceptionPropagates
    \/ PrintSummary

Spec == Init /\ [][Next]_vars

InitStats ==
    /\ msh \in MeshFiles
    /\ content = NoText
    /\ spc = "open"
    /\ stats = DefaultStats
    /\ exc = "None"
    /\ CallIdle
    /\ BuilderIdle
    /\ CliIdle

NextStats ==
    \/ ReadFile
    \/ ParsePhysicalNames
    \/ ParseNodes
    \/ ParseElements
    \/ ExceptPass
    \/ ReturnStats

SpecStats == InitStats /\ [][NextStats]_vars

(***************************************************************************)
(* The methods of MeshBuilder.                                             *)
(***************************************************************************)
MaxAdds == 3

cylinder(self, radius) == [self EXCEPT !.radius = Some(radius)]

mesh_size(self, ml) == [self EXCEPT !.ml = Some(ml)]

\* The first argument of add_layer: a string or a number.
NameArg(name) == [t |-> "str", name |-> name, number |-> 0]
NumberArg(number) == [t |-> "float", name |-> "", number |-> number]

\* `if name:' and any(): None and "" are false.
Truthy(name) == name # None /\ name # Some("")
AnyTruthy(names) == \E i \in DOMAIN names : Truthy(names[i])

\* while len(self._layer_names) < n: self._layer_names.append(None)
PadNames(names, n) == names \o [i \in 1..(n - Len(names)) |-> None]

add_layer(self, name_or_thickness, thickness, subs) ==
    IF name_or_thickness.t = "str" /\ thickness = None
    THEN [self |-> self,
          raised |-> Raise("ValueError", "thickness required when providing layer name")]
    ELSE LET name == IF name_or_thickness.t = "str"
                     THEN Some(name_or_thickness.name) ELSE None
             thick == IF name_or_thickness.t = "str"
                      THEN thickness[1] ELSE name_or_thickness.number
             layers == Append(self.layers, thick)
         IN  [self |-> [self EXCEPT
                  !.layers = layers,
                  !.subdivisions = Append(@, subs),
                  !.layer_names = IF Truthy(name)
                                  THEN Append(PadNames(@, Len(layers) - 1), name)
                                  ELSE @,
                  !.names_given = Append(@, name)],
              raised |-> NoError]

\* The arguments build passes to create_mesh.
BuildArguments(self) ==
    [ml |-> self.ml[1], radius |-> self.radius[1],
     layers |-> PyList(self.layers),
     subdivisions |-> PyList(self.subdivisions),
     layer_names |-> IF AnyTruthy(self.layer_names)
                     THEN PyList(self.layer_names) ELSE PyNone,
     geo_only |-> self.geo_only, gui_mode |-> self.gui_mode]

\* As build, but without the test for layers.
buildWithoutLayersTest(self) ==
    IF self.radius = None
        THEN [raised |-> Raise("ValueError", "Cylinder radius not set. Use .cylinder(radius)"),
              call |-> None]
    ELSE IF self.ml = None
        THEN [raised |-> Raise("ValueError", "Mesh size not set. Use .mesh_size(ml)"),
              call |-> None]
    ELSE [raised |-> NoError, call |-> Some(BuildArguments(self))]

build(self) ==
    IF self.radius = None
        THEN [raised |-> Raise("ValueError", "Cylinder radius not set. Use .cylinder(radius)"),
              call |-> None]
    ELSE IF self.ml = None
        THEN [raised |-> Raise("ValueError", "Mesh size not set. Use .mesh_size(ml)"),
              call |-> None]
    ELSE IF self.layers = <<>>
        THEN [raised |-> Raise("ValueError", "No layers defined. Use .add_layer()"),
              call |-> None]
    ELSE [raised |-> NoError, call |-> Some(BuildArguments(self))]

Cylinder ==
    /\ \E radius \in {5} :
         /\ builder' = cylinder(builder, radius)
         /\ lastCall' = MethodCall("cylinder", builder, NoError, None)
    /\ UNCHANGED outsideBuilder

MeshSize ==
    /\ \E ml \in {2} :
         /\ builder' = mesh_size(builder, ml)
         /\ lastCall' = MethodCall("mesh_size", builder, NoError, None)
    /\ UNCHANGED outsideBuilder

\* add_layer("A", thickness = 2, subdivisions = 1), add_layer("A"),
\* add_layer(2), ...
AddLayerArguments ==
    { <<NameArg(n), t, k>> : n \in LayerNames, t \in {None, Some(1), Some(2)},
                            k \in {1, 2} }
    \cup { <<NumberArg(t), None, k>> : t \in {1, 2}, k \in {1, 2} }

AddLayer ==
    /\ Len(builder.layers) < MaxAdds
    /\ \E a \in AddLayerArguments :
         LET r == add_layer(builder, a[1], a[2], a[3])
         IN  /\ builder' = r.self
             /\ lastCall' = MethodCall("add_layer", builder, r.raised, None)
    /\ UNCHANGED outsideBuilder

\* build leaves the fields as they are; what create_mesh then does is Spec.
Build ==
    /\ LET r == build(builder)
       IN  lastCall' = MethodCall("build", builder, r.raised, r.call)
    /\ UNCHANGED builder
    /\ UNCHANGED outsideBuilder

InitBuilder == BuilderIdle /\ ParserIdle /\ CallIdle /\ CliIdle

NextBuilder ==
    \/ Cylinder
    \/ MeshSize
    \/ AddLayer
    \/ Build

SpecBuilder == InitBuilder /\ [][NextBuilder]_vars

(***************************************************************************)
(* The command line and the configuration file.  The run is cylmesh        *)
(* --config FILE with any of --ml, --layers, --subdivisions, --geo and     *)
(* --gui beside it: parse_and_validate returns the namespace, load_config  *)
(* the dict, and apply_config_to_args combines the two.                    *)
(***************************************************************************)
ArgumentKeys == {"ml", "layers", "subdivisions", "geo", "gui"}

\* `not x' for an attribute that is None or a list.
Falsy(x) == x.t = "None" \/ x.v = <<>>

\* What the user can type after each option.
GivenMl == {0, 2}
GivenLayers == {<<0>>, <<1>>, <<1, 2>>}
GivenSubdivisions == {<<>>, <<2>>}
GivenGeo == {"mesh.geo", "a.geo"}

\* parse_args: an option the user gave holds the value typed, any other its
\* default.
CommandLines ==
    [ml : {None} \cup {Some(x) : x \in GivenMl},
     layers : {PyNone} \cup {PyList(l) : l \in GivenLayers},
     subdivisions : {PyNone} \cup {PyList(l) : l \in GivenSubdivisions},
     geo : {None} \cup {Some(x) : x \in GivenGeo},
     gui : {None, Some(TRUE)}]

parse_args(line) ==
    [ml |-> line.ml,
     layers |-> line.layers,
     subdivisions |-> line.subdivisions,
     geo |-> IF line.geo = None THEN ParserDefaults.geo ELSE line.geo[1],
     gui |-> IF line.gui = None THEN ParserDefaults.gui ELSE line.gui[1]]

GivenKeys(line) ==
    {k \in ArgumentKeys :
        \/ k = "ml" /\ line.ml # None
        \/ k = "layers" /\ line.layers # PyNone
        \/ k = "subdivisions" /\ line.subdivisions # PyNone
        \/ k = "geo" /\ line.geo # None
        \/ k = "gui" /\ line.gui # None}

\* The dicts load_config can return: each key absent or present; author is
\* a key that is no attribute of the namespace.
Configs ==
    [ml : {None, Some(7)},
     layers : {None, Some(PyList(<<4>>))},
     subdivisions : {None, Some(PyList(<<5>>))},
     geo : {None, Some("c.geo")},
     gui : {None, Some(TRUE), Some(FALSE)},
     author : {None, Some("x")}]

\* The try block of parse_and_validate, for a command line with --config.
ParseChecks(a) ==
    LET given_layers == IF Falsy(a.layers) THEN PyList(<<>>) ELSE a.layers
    IN  <<IF ~Falsy(given_layers) /\ ~Falsy(a.subdivisions)
             /\ Len(a.subdivisions.v) # Len(given_layers.v)
          THEN Raise("ValidationError",
                     "Number of subdivisions must match number of layers")
          ELSE NoError,
          IF ~Falsy(given_layers)
          THEN validate_positive_list(given_layers.v, "layer thicknesses")
          ELSE NoError,
          IF a.ml # None THEN validate_positive_float(a.ml[1], "mesh length")
          ELSE NoError>>

parse_and_validate(a) ==
    LET checks == ParseChecks(a)
        failed == {i \in DOMAIN checks : checks[i] # NoError}
        given_layers == IF Falsy(a.layers) THEN PyList(<<>>) ELSE a.layers
        defaulted ==
            IF ~Falsy(given_layers) /\ Falsy(a.subdivisions)
            THEN PyList([i \in 1..Len(given_layers.v) |-> 1])
            ELSE a.subdivisions
    IN  IF failed # {}
        THEN [error |-> checks[CHOOSE i \in failed : \A j \in failed : i <= j],
              args |-> a]
        ELSE [error |-> NoError,
              args |-> [a EXCEPT !.layers = given_layers,
                                 !.subdivisions = defaulted]]

\* for key, value in config.items(): the keys are distinct and each branch
\* reads and writes its own attribute only, so the order does not matter.
\* layers is overwritten when falsy, ml when None, every other attribute when
\* equal to the parser's default; author is no attribute and is skipped.
apply_config_to_args(a, cfg) ==
    [ml |-> IF cfg.ml # None /\ a.ml = None THEN cfg.ml ELSE a.ml,
     layers |-> IF cfg.layers # None /\ Falsy(a.layers)
                THEN cfg.layers[1] ELSE a.layers,
     subdivisions |-> IF cfg.subdivisions # None
                         /\ a.subdivisions = ParserDefaults.subdivisions
                      THEN cfg.subdivisions[1] ELSE a.subdivisions,
     geo |-> IF cfg.geo # None /\ a.geo = ParserDefaults.geo
             THEN cfg.geo[1] ELSE a.geo,
     gui |-> IF cfg.gui # None /\ a.gui = ParserDefaults.gui
             THEN cfg.gui[1] ELSE a.gui]

\* args, parser = self.cli_parser.parse_and_validate(); parser.error exits.
ParseAndValidate ==
    /\ cli.pc = "parsed"
    /\ LET r == parse_and_validate(args)
       IN  /\ args' = r.args
           /\ cli' = [cli EXCEPT !.pc = IF r.error = NoError THEN "validated"
                                        ELSE "exit"]
    /\ UNCHANGED config
    /\ UNCHANGED outsideCli

\* config = load_config(args.config); apply_config_to_args(args, parser,
\* config)
ApplyConfig ==
    /\ cli.pc = "validated"
    /\ args' = apply_config_to_args(args, config)
    /\ cli' = [cli EXCEPT !.pc = "applied", !.entry = args]
    /\ UNCHANGED config
    /\ UNCHANGED outsideCli

\* if not args.subdivisions and args.layers: one subdivision per layer.
EnsureSubdivisions ==
    /\ cli.pc = "applied"
    /\ args' = IF Falsy(args.subdivisions) /\ ~Falsy(args.layers)
               THEN [args EXCEPT !.subdivisions =
                        PyList([i \in 1..Len(args.layers.v) |-> 1])]
               ELSE args
    /\ cli' = [cli EXCEPT !.pc = "ready"]
    /\ UNCHANGED config
    /\ UNCHANGED outsideCli

InitConfig ==
    /\ \E line \in CommandLines :
        /\ args = parse_args(line)
        /\ cli = [pc |-> "parsed", given |-> GivenKeys(line),
                  entry |-> parse_args(line)]
    /\ config \in Configs
    /\ ParserIdle
    /\ CallIdle
    /\ BuilderIdle

NextConfig ==
    \/ ParseAndValidate
    \/ ApplyConfig
    \/ EnsureSubdivisions

SpecConfig == InitConfig /\ [][NextConfig]_vars

(***************************************************************************)
(* What the properties of the parser speak about: the artifact as written, *)
(* read off the file and not off the parser's state.                       *)
(***************************************************************************)
MshText == [lines |-> msh.lines, nl |-> msh.nl]

Returned == spc = "done"

\* The lines of the PhysicalNames section: the count line, then the records.
SectionLines == StripSplit(PhysSearch(MshText).group)

\* The section is there and its count line is a number.
PhysDeclared ==
    /\ msh.kind = "text"
    /\ PhysSearch(MshText).found
    /\ Len(SectionLines[1]) = 1
    /\ IsDigit(SectionLines[1][1])
    /\ IntParses(SectionLines[1][1])

DeclaredCount == IntValue(SectionLines[1][1])

\* The record lines of the section, in order.
RecordsPresent == Tail(SectionLines)

\* The record lines among the first n, n the declared count.
RecordsInCount ==
    SubSeq(RecordsPresent, 1, Min(DeclaredCount, Len(RecordsPresent)))

\* <dimension> <tag> "<name>" with an integer dimension and tag.
WellFormed(r) == Len(r) >= 3 /\ IntParses(r[1]) /\ IntParses(r[2])

\* A record whose dimension or tag int() refuses.
NonNumeric(r) == Len(r) >= 3 /\ ~(IntParses(r[1]) /\ IntParses(r[2]))

RecordName(r) == StripQuotes(r[3])

\* Reading the PhysicalNames section raises.
PhysFails ==
    /\ msh.kind = "text"
    /\ PhysSearch(MshText).found
    /\ Len(SectionLines[1]) = 1
    /\ IsDigit(SectionLines[1][1])
    /\ \/ ~IntParses(SectionLines[1][1])
       \/ \E i \in 1..Len(RecordsInCount) : NonNumeric(RecordsInCount[i])

\* The line of the first marker that stands alone on its line, 0 if none.
RECURSIVE MarkerLineFrom(_, _, _)
MarkerLineFrom(lines, k, marker) ==
    IF k > Len(lines) THEN 0
    ELSE IF lines[k] = <<marker>> THEN k
    ELSE MarkerLineFrom(lines, k + 1, marker)

SectionPresent(marker) ==
    msh.kind = "text" /\ MarkerLineFrom(msh.lines, 1, marker) > 0

\* The place of a section's header: the first line after its marker that
\* is not empty.
HeaderIndex(marker) ==
    NextNonBlank(msh.lines, MarkerLineFrom(msh.lines, 1, marker))

HeaderPresent(marker) ==
    SectionPresent(marker) /\ HeaderIndex(marker) <= Len(msh.lines)

HeaderOf(marker) == msh.lines[HeaderIndex(marker)]

\* The header line is complete: a newline ends it.
HeaderEnded(marker) == Terminated(msh.lines, msh.nl, HeaderIndex(marker))

\* The header has a 4th field and that field is an integer.
HeaderCountIsInt(marker) ==
    /\ HeaderPresent(marker)
    /\ Len(HeaderOf(marker)) >= 4
    /\ IntParses(HeaderOf(marker)[4])

HeaderCount(marker) == IntValue(HeaderOf(marker)[4])

\* Reading the section's header raises.
HeaderFails(marker) ==
    /\ HeaderPresent(marker)
    /\ HeaderEnded(marker)
    /\ Len(HeaderOf(marker)) >= 4
    /\ ~IntParses(HeaderOf(marker)[4])

\* Some step of _extract_mesh_statistics failed.
SomeStepFailed == exc # "None"

(***************************************************************************)
(* C1.  If any step of _extract_mesh_statistics fails, the statistics      *)
(* returned are the all-default value: no physical group and both counts   *)
(* 0, nothing kept from the sections parsed before the failure.            *)
(***************************************************************************)
C1_FailureReturnsDefaults ==
    (Returned /\ SomeStepFailed) => stats = DefaultStats

(***************************************************************************)
(* C2.  _extract_mesh_statistics never raises to its caller: for a missing *)
(* file, an unreadable file and every text it returns a dict with the keys *)
(* physical_groups, num_vertices and num_elements.                         *)
(***************************************************************************)
C2_NeverRaises ==
    /\ spc # "raised"
    /\ Returned => DOMAIN stats = {"physical_groups", "num_vertices", "num_elements"}

\* A call on a missing file has returned.
C2_Witness == Returned /\ msh.kind = "missing" /\ exc = "FileNotFoundError"

(***************************************************************************)
(* C3, as claimed.  Whenever the artifact has an Elements section whose    *)
(* header's 4th field is an integer, num_elements is that integer,         *)
(* whatever the PhysicalNames and Nodes sections hold.                     *)
(***************************************************************************)
C3_ElementsAlwaysExtracted ==
    (Returned /\ HeaderCountIsInt(MarkElements) /\ HeaderEnded(MarkElements))
        => stats.num_elements = HeaderCount(MarkElements)

(***************************************************************************)
(* C3, amended.  Whenever the artifact has an Elements section whose       *)
(* newline-ended header has an integer 4th field, num_elements is that     *)
(* integer provided reading the PhysicalNames and Nodes sections raised    *)
(* nothing; if one of them raised, num_elements is 0.                      *)
(***************************************************************************)
C3_ElementsExtractedUnlessEarlierFailure ==
    (Returned /\ HeaderCountIsInt(MarkElements) /\ HeaderEnded(MarkElements))
        => stats.num_elements =
              IF PhysFails \/ HeaderFails(MarkNodes) THEN 0
              ELSE HeaderCount(MarkElements)

\* The element count was read past a PhysicalNames section cut short (no
\* $EndPhysicalNames) and an absent Nodes section.
C3_Witness ==
    /\ Returned
    /\ SectionPresent(MarkPhysicalNames) /\ ~PhysSearch(MshText).found
    /\ ~SectionPresent(MarkNodes)
    /\ HeaderCountIsInt(MarkElements)
    /\ stats.num_elements = 12

(***************************************************************************)
(* C4, as claimed.  For a section declaring n records and holding m        *)
(* well-formed record lines, the mapping has exactly min(n, m) entries,    *)
(* one per record.  Stated for the sections the claim is surest of: every  *)
(* record line is well-formed and no two record lines are the same record. *)
(***************************************************************************)
C4_OneEntryPerRecord ==
    (/\ Returned /\ PhysDeclared /\ ~SomeStepFailed
     /\ \A i \in 1..Len(RecordsPresent) : WellFormed(RecordsPresent[i])
     /\ \A i, j \in 1..Len(RecordsPresent) :
            i # j => RecordsPresent[i] # RecordsPresent[j])
        => Cardinality(DOMAIN stats.physical_groups)
              = Min(DeclaredCount, Len(RecordsPresent))

\* The records, among the first n lines of the section, that have a name.
NamedRecords == SelectSeq(RecordsInCount, LAMBDA r : Len(r) >= 3)

\* The last record among the first n that carries the name.
LastNamed(name) ==
    LET I == { i \in 1..Len(NamedRecords) : RecordName(NamedRecords[i]) = name }
    IN  NamedRecords[CHOOSE i \in I : \A j \in I : j <= i]

(***************************************************************************)
(* C4, amended.  When no step fails, the mapping has one entry per         *)
(* distinct name among the records with at least three fields within the   *)
(* first n lines after the count line; the entry of a name carries the     *)
(* dimension and tag of the last such record, so that records sharing a    *)
(* name share one entry and there are at most min(n, m) entries.           *)
(***************************************************************************)
C4_OneEntryPerName ==
    (Returned /\ PhysDeclared /\ ~SomeStepFailed) =>
        /\ DOMAIN stats.physical_groups =
              { RecordName(NamedRecords[i]) : i \in 1..Len(NamedRecords) }
        /\ \A name \in DOMAIN stats.physical_groups :
              stats.physical_groups[name] =
                  [dimension |-> IntValue(LastNamed(name)[1]),
                   tag |-> IntValue(LastNamed(name)[2])]
        /\ Cardinality(DOMAIN stats.physical_groups)
              <= Min(DeclaredCount, Len(RecordsPresent))

\* A surface and a volume named A were both read, and share the entry A.
C4_Witness ==
    /\ Returned /\ PhysDeclared /\ ~SomeStepFailed
    /\ Len(NamedRecords) = 2
    /\ RecordName(NamedRecords[1]) = RecordName(NamedRecords[2])
    /\ NamedRecords[1][1] # NamedRecords[2][1]
    /\ Cardinality(DOMAIN stats.physical_groups) = 1

(***************************************************************************)
(* C5.  In a PhysicalNames section with declared count n, only the first n *)
(* record lines contribute entries, and with fewer than n record lines     *)
(* only the lines present are read; neither case is an error: the parser   *)
(* goes on to the Nodes and Elements sections, whose counts are extracted. *)
(***************************************************************************)
C5_CountMismatchIsNoError ==
    (/\ Returned /\ PhysDeclared
     /\ Len(RecordsPresent) # DeclaredCount
     /\ \A i \in 1..Len(RecordsInCount) : ~NonNumeric(RecordsInCount[i]))
        => /\ DOMAIN stats.physical_groups
                 \subseteq { RecordName(NamedRecords[i]) : i \in 1..Len(NamedRecords) }
           /\ ~SomeStepFailed =>
                 DOMAIN stats.physical_groups
                     = { RecordName(NamedRecords[i]) : i \in 1..Len(NamedRecords) }
           /\ (HeaderCountIsInt(MarkNodes) /\ HeaderEnded(MarkNodes))
                 => stats.num_vertices = HeaderCount(MarkNodes)
           /\ (/\ HeaderCountIsInt(MarkElements) /\ HeaderEnded(MarkElements)
               /\ ~HeaderFails(MarkNodes))
                 => stats.num_elements = HeaderCount(MarkElements)
           /\ (~HeaderFails(MarkNodes) /\ ~HeaderFails(MarkElements))
                 => ~SomeStepFailed

\* More record lines than declared: the surplus line, a volume B, left no
\* entry, and the counts were extracted.
C5_Witness ==
    /\ Returned /\ PhysDeclared
    /\ DeclaredCount = 1 /\ Len(RecordsPresent) = 2
    /\ WellFormed(RecordsPresent[1]) /\ WellFormed(RecordsPresent[2])
    /\ RecordName(RecordsPresent[2]) = <<"B">>
    /\ DOMAIN stats.physical_groups = { <<"A">> }
    /\ stats.num_vertices = 12 /\ stats.num_elements = 12

(***************************************************************************)
(* C6, as claimed.  With the other sections absent or well-formed,         *)
(* num_vertices equals the 4th field of the Nodes header line when the     *)
(* section is present with at least four fields, and is 0 when the section *)
(* is absent or its header has fewer than four fields.  Stated for the     *)
(* headers whose 4th field is a number num_vertices can be equal to.       *)
(***************************************************************************)
C6_VerticesEqualFourthField ==
    (Returned /\ msh.kind = "text" /\ ~PhysFails /\ ~HeaderFails(MarkElements)) =>
        /\ HeaderCountIsInt(MarkNodes)
              => stats.num_vertices = HeaderCount(MarkNodes)
        /\ (~HeaderPresent(MarkNodes) \/ Len(HeaderOf(MarkNodes)) < 4)
              => stats.num_vertices = 0

(***************************************************************************)
(* C6, amended.  With the other sections absent or well-formed,            *)
(* num_vertices is the integer value of the 4th field of the Nodes header  *)
(* line when that line is ended by a newline, has at least four fields and *)
(* its 4th field is an integer; it is 0 when the section is absent, the    *)
(* header line is not ended by a newline, has fewer than four fields, or   *)
(* its 4th field is no integer.                                            *)
(***************************************************************************)
C6_VerticesFromParseableHeader ==
    (Returned /\ msh.kind = "text" /\ ~PhysFails /\ ~HeaderFails(MarkElements)) =>
        stats.num_vertices =
            IF HeaderCountIsInt(MarkNodes) /\ HeaderEnded(MarkNodes)
                THEN HeaderCount(MarkNodes)
            ELSE 0

\* The vertex count 12 was read from a Nodes header of four fields.
C6_Witness ==
    /\ Returned /\ msh.kind = "text" /\ ~PhysFails /\ ~HeaderFails(MarkElements)
    /\ HeaderCountIsInt(MarkNodes) /\ HeaderEnded(MarkNodes)
    /\ HeaderOf(MarkNodes)[4] = <<"1", "2">>
    /\ stats.num_vertices = 12

(***************************************************************************)
(* C7.  For every artifact content, the statistics returned have           *)
(* num_vertices >= 0 and num_elements >= 0.                                *)
(***************************************************************************)
C7_CountsNonNegative ==
    Returned => stats.num_vertices >= 0 /\ stats.num_elements >= 0

\* The vocabulary above agrees with the run: a step fails exactly when the
\* file cannot be read or a section read raises.
FailureIsAsWritten ==
    Returned =>
        (SomeStepFailed <=>
            \/ msh.kind # "text"
            \/ PhysFails
            \/ HeaderFails(MarkNodes)
            \/ HeaderFails(MarkElements))

(***************************************************************************)
(* Claims about create_mesh.                                               *)
(***************************************************************************)
CallReturned == pc = "done" /\ result # None

\* C8: create_mesh never raises and never terminates the process: every
\* failure in validation, in writing the geometry file or in the run of the
\* mesher is returned as a result with success = False and a non-empty error
\* message.
C8_FailuresAreReturned ==
    /\ pc # "exited"
    /\ (pc = "done" /\ raised # NoError) =>
         /\ result # None
         /\ ~result[1].success
         /\ result[1].error \notin {None, Some("")}

\* C9: a call with an empty list of layers fails its input validation: it
\* returns success = False before the geometry generator is constructed and
\* before any file is written.
C9_EmptyLayersFailValidation ==
    call.layers = PyList(<<>>) =>
        /\ pc \in {"validate", "done"}
        /\ geometry_gen = None
        /\ CallReturned => ~result[1].success /\ result[1].parameters = NoParameters

\* C10: no stack with a subdivision count below 1 reaches the geometry
\* generator.
C10_SubdivisionsAtLeastOne ==
    geometry_gen # None =>
        \A i \in DOMAIN geometry_gen[1].subdivisions :
            geometry_gen[1].subdivisions[i] >= 1

\* The validation block rejects the arguments of the call.
Rejected == InputValidation(call).error # NoError

\* C11: when create_mesh rejects its input during validation, nothing is
\* emitted: no .geo file is written, the mesher is not started, no generator
\* is constructed, and the result has success = False with geo_file,
\* msh_file, geo_size and msh_size all None.
C11_RejectionEmitsNothing ==
    Rejected =>
        /\ effects = {}
        /\ geometry_gen = None /\ geo_content = None
        /\ pc \in {"validate", "done"}
        /\ pc = "done" =>
              /\ result # None
              /\ ~result[1].success
              /\ result[1].geo_file = None /\ result[1].msh_file = None
              /\ result[1].geo_size = None /\ result[1].msh_size = None

\* A call with two layers and one subdivision count was rejected, and has
\* returned, while a .geo file of an earlier run lies at the path.
C11_Witness ==
    /\ CallReturned /\ Rejected
    /\ call.ml > 0 /\ call.radius > 0
    /\ Len(call.layers.v) = 2 /\ Len(call.subdivisions.v) = 1
    /\ disk.geo
    /\ result[1].geo_file = None

\* C12: with geo_only = True create_mesh never starts the mesher, and once
\* the .geo file is written it has returned success = True with msh_file
\* None, msh_size None and an empty mesh_info.
C12_GeoOnlySkipsMesher ==
    call.geo_only =>
        /\ "gmsh_started" \notin effects /\ "msh_written" \notin effects
        /\ pc \notin {"mesh", "check"}
        /\ "geo_written" \in effects =>
              /\ CallReturned
              /\ result[1].success
              /\ result[1].geo_file = Some(GeoFile)
              /\ result[1].msh_file = None
              /\ result[1].msh_size = None
              /\ result[1].mesh_info = EmptyDict

\* A geo_only call has written the .geo file and returned, a mesh file of an
\* earlier run lying at the .msh path.
C12_Witness ==
    /\ call.geo_only /\ CallReturned
    /\ effects = {"geo_written"}
    /\ disk.msh # None
    /\ result[1].success /\ result[1].msh_file = None

\* C13: whenever create_mesh returns success = True with a msh_file that is
\* not None, the mesh file exists at return time and msh_size is its size,
\* in batch mode and in GUI mode alike.
C13_ReturnedMeshFileExists ==
    (CallReturned /\ result[1].success /\ result[1].msh_file # None) =>
        /\ disk.msh # None
        /\ result[1].msh_size # None
        /\ result[1].msh_size = Some(getsize(disk.msh[1]))

\* C14: print_mesh_summary accepts every result create_mesh or
\* create_mesh_from_config can return (a failure, a geo_only success, a
\* GUI-mode success without a mesh file, a batch success) and prints the
\* summary without raising.
C14_SummaryNeverRaises == summary \in {"none", "printed"}

(***************************************************************************)
(* Claims about MeshBuilder.                                               *)
(***************************************************************************)
Incomplete(self) == self.radius = None \/ self.ml = None \/ self.layers = <<>>

\* C15: build raises ValueError, without calling create_mesh and without
\* changing the builder, whenever the radius has not been set, the mesh size
\* has not been set or no layer has been added, whatever the order of the
\* cylinder, mesh_size and add_layer calls before it.
C15_IncompleteBuildRaises ==
    (lastCall.method = "build" /\ Incomplete(lastCall.self)) =>
        /\ lastCall.raised.raised = "ValueError"
        /\ lastCall.call = None
        /\ builder = lastCall.self

\* build was called after two layers and the radius were given, but no mesh
\* size.
C15_Witness ==
    /\ lastCall.method = "build"
    /\ lastCall.self.radius # None /\ lastCall.self.ml = None
    /\ Len(lastCall.self.layers) = 2
    /\ lastCall.raised.raised = "ValueError"

\* C16: after add_layer calls mixing named and unnamed layers, at least one
\* of them named, the layer-name list build hands to create_mesh has one
\* position per layer, the name of layer i at position i, so that a builder
\* with valid radius, mesh size and thicknesses passes create_mesh's
\* validation of the number of layer names.
C16_NamesAlignedWithLayers ==
    (/\ lastCall.method = "build" /\ lastCall.call # None
     /\ AnyTruthy(lastCall.self.names_given)) =>
        LET c == lastCall.call[1]
        IN  /\ c.layer_names # PyNone
            /\ Len(c.layer_names.v) = Len(c.layers.v)
            /\ \A i \in DOMAIN c.layers.v :
                  c.layer_names.v[i] = lastCall.self.names_given[i]
            /\ InputValidation(c).error = NoError

\* C17: apply_config_to_args preserves the command line: every argument the
\* user gave holds after the call the value it held before, so that a config
\* value has been applied only to arguments the user did not give.
C17_CommandLineOverridesPreserved ==
    cli.pc = "applied" =>
        /\ "ml" \in cli.given => args.ml = cli.entry.ml
        /\ "layers" \in cli.given => args.layers = cli.entry.layers
        /\ "subdivisions" \in cli.given =>
               args.subdivisions = cli.entry.subdivisions
        /\ "geo" \in cli.given => args.geo = cli.entry.geo
        /\ "gui" \in cli.given => args.gui = cli.entry.gui


\* The script create_mesh obtained from the generator, and the layers and
\* names it was called with.
ScriptGenerated == geo_content # None
NamesGiven == call.layer_names # PyNone

\* C18: the script generated for a stack of N layers holds exactly N volume
\* physical groups, tagged 1..N in layer order; the group of a layer bears
\* the name given for that layer when names are given, and "Layer_<k>" for
\* the k-th layer otherwise.
C18_OneVolumeGroupPerLayer ==
    ScriptGenerated =>
        LET groups == geo_content[1].volume_groups
            N == Len(call.layers.v)
        IN  /\ Len(groups) = N
            /\ \A k \in 1..N :
                 /\ groups[k].dimension = 3
                 /\ groups[k].tag = k
                 /\ groups[k].name =
                        IF NamesGiven
                        THEN GivenLayerName(call.layer_names.v[k])
                        ELSE DefaultLayerName(k)

\* A script was generated for two layers with their names given.
C18_Witness ==
    /\ ScriptGenerated
    /\ Len(call.layers.v) = 2
    /\ NamesGiven
    /\ geo_content[1].volume_groups[2].name = GivenLayerName("B")


\* The call passed the validation block with at least one layer: the
\* generator was constructed from its arguments.
ValidatedNonEmpty ==
    /\ ~Rejected
    /\ geometry_gen # None
    /\ call.layers.v # <<>>

\* C19: every result create_mesh returns after its validation passed with a
\* non-empty layer list, success or failure, has parameters.total_height
\* equal to the sum of the layer thicknesses and parameters.num_layers equal
\* to the number of layers.
C19_TotalsOfValidatedStack ==
    (CallReturned /\ ValidatedNonEmpty) =>
        /\ result[1].parameters.total_height = Some(sum(call.layers.v))
        /\ result[1].parameters.num_layers = Some(Len(call.layers.v))

\* A call with layers 1 and 2 passed validation and returned a failure.
C19_Witness ==
    /\ CallReturned /\ ValidatedNonEmpty
    /\ ~result[1].success
    /\ call.layers.v = <<1, 2>>
    /\ result[1].parameters.total_height = Some(3)
    /\ result[1].parameters.num_layers = Some(2)

============================================================================
